---- MODULE Spec2Model ----
(***************************************************************************)
(* A model of the snapshot batch of script-snapshot: RunEvent (workers.py), *)
(* the QThread that fans one snapshot_task per device line out onto a      *)
(* ThreadPoolExecutor, gathers the per-device results in output_data and   *)
(* writes the report, and of the Form (ui.py) that starts it.              *)
(*                                                                         *)
(* Strings that the code slices or strips (prompts, command outputs) are   *)
(* sequences of one-character strings; device and command lines are opaque *)
(* strings.  A Python dict is a record [keys, val]: keys is the insertion  *)
(* order, val the mapping.  Progress increments are counted in units of    *)
(* 1/Unit, Unit = len(devices) * len(commands), so that every slice of the *)
(* code's float arithmetic is a whole number.                              *)
(*                                                                         *)
(* Three specifications share the actions:                                 *)
(*   Spec      one batch, from the start of RunEvent.run, the Form's      *)
(*             thread not scheduled meanwhile;                             *)
(*   SpecUI    the Form and its worker thread, from the constructed form;  *)
(*   SpecPool  the runs of a batch of PoolDevices devices, more than the   *)
(*             pool has workers, in which the tasks run one after another  *)
(*             and every device reports the same prompt.                   *)
(***************************************************************************)
EXTENDS Integers, Sequences, FiniteSets, TLC

\* ------------------------------------------------------------------ bounds
MaxDevices == 2
MaxCommands == 2
\* SpecUI: the lines in the form, and how many times Run is clicked.
MaxUIDevices == 1
MaxUICommands == 1
MaxRuns == 2
\* SpecPool: the number of device lines.
PoolDevices == 9

\* ThreadPoolExecutor(max_workers=8)
MaxWorkers == 8
\* QProgressBar's default range, and run_finish_event's setValue(100)
BarMax == 100

DeviceIds == {"d1", "d2"}
CommandIds == {"c1", "c2"}
PoolIds == <<"d1", "d2", "d3", "d4", "d5", "d6", "d7", "d8", "d9", "d10",
             "d11", "d12">>
\* What a device may report as handler.prompt.
Prompts == {<<"r", "1", "#">>, <<"r", "2", "#">>}
\* What sendCommand may return, before .strip().
RawOutputs == {<<"X">>, <<" ", "X", " ">>}
Whitespace == {" ", "\n", "\t"}

VARIABLES
    devices,        \* self.devices: the non-empty device lines, in order
    commands,       \* self.commands: the non-empty command lines, in order
    output_type,    \* self.output_type: "Text" or "Excel"
    runPc,          \* where RunEvent.run is
    nsub,           \* how many devices thread_executor has submitted
    futures,        \* the futures dict: device -> index of the task it holds
    task,           \* per submitted device (by position): the snapshot_task
    output_data,    \* self.output_data
    emitted,        \* sum of the increments emitted on add_progress, in 1/Unit
    emitCount,      \* how many increments of each kind have been emitted
    logged,         \* devices whose exception thread_executor logged
    report,         \* what generate_report has written
    run_button,     \* run_button.isEnabled()
    progress_bar,   \* progress_bar.value()
    uiPc,           \* where the Form's thread is: its event loop ("idle") or
                    \* inside run_start_event
    connected,      \* which signals of run_worker have a slot connected
    uiQueue,        \* the signals queued for the Form's thread, oldest first
    runs            \* how many RunEvent workers have been started

batchIn == <<devices, commands, output_type>>
uiVars == <<run_button, progress_bar, uiPc, connected, runs>>

vars == <<devices, commands, output_type, runPc, nsub, futures, task,
          output_data, emitted, emitCount, logged, report, run_button,
          progress_bar, uiPc, connected, uiQueue, runs>>

\* ------------------------------------------------------------- helpers
Range(s) == {s[i] : i \in 1..Len(s)}

SeqsUpTo(S, n) == UNION {[1..m -> S] : m \in 0..n}

Max(a, b) == IF a >= b THEN a ELSE b
Min(a, b) == IF a <= b THEN a ELSE b

\* str.strip(): leading and trailing whitespace removed.
RECURSIVE LStrip(_)
LStrip(s) == IF s # <<>> /\ Head(s) \in Whitespace THEN LStrip(Tail(s)) ELSE s

RECURSIVE RStrip(_)
RStrip(s) ==
    IF s # <<>> /\ s[Len(s)] \in Whitespace
    THEN RStrip(SubSeq(s, 1, Len(s) - 1)) ELSE s

Strip(s) == RStrip(LStrip(s))

\* prompt[:-1]
DropLast(s) == IF s = <<>> THEN <<>> ELSE SubSeq(s, 1, Len(s) - 1)

\* A Python dict, which keeps insertion order: d[k] = v.
EmptyDict == [keys |-> <<>>, val |-> <<>>]

DictHas(d, k) == k \in Range(d.keys)

DictSet(d, k, v) ==
    [keys |-> IF DictHas(d, k) THEN d.keys ELSE Append(d.keys, k),
     val  |-> [x \in Range(d.keys) \cup {k} |-> IF x = k THEN v ELSE d.val[x]]]

DictLen(d) == Len(d.keys)

\* ------------------------------------------------------------ progress
D == Len(devices)
C == Len(commands)
Unit == Max(D, 1) * Max(C, 1)

\* self.add_progress.emit(9) and .emit(2)
StartupIncrement == 9 * Unit
FinalIncrement == 2 * Unit
\* available_progress = 90 / len(self.devices); times 0.1, 0.2, and
\* (available_progress * 0.7) / len(self.commands)
\* (as available_progress emitted whole, without the factor 0.1, would be)
ConnectIncrementWhole == 90 * Max(C, 1)

ConnectIncrement == 9 * Max(C, 1)
AuthIncrement == 18 * Max(C, 1)
CommandIncrement == 63

\* A signal emitted from the worker thread is queued for the Form's thread
\* if a slot is connected to it, and dropped otherwise.
Signal(name, msg) ==
    uiQueue' = IF connected[name] THEN Append(uiQueue, msg) ELSE uiQueue

NoEmits == [startup |-> 0, device |-> 0, final |-> 0]

\* self.add_progress.emit(v); kind says which emit statement it is: the
\* startup one, one of snapshot_task's, or the final one.
Emit(kind, v) ==
    /\ emitted' = emitted + v
    /\ emitCount' = [emitCount EXCEPT ![kind] = @ + 1]
    /\ Signal("add_progress", [sig |-> "add_progress", value |-> v])

\* ---------------------------------------------------------------- tasks
Tasks == 1..D

NewTask == [pc |-> "unsubmitted", session |-> "none", sent |-> 0,
            stored |-> 0, cmdEmits |-> 0, pending |-> <<>>]

Running == {"start", "connect", "send", "store", "close"}
Terminal == {"done", "raised"}

NumRunning == Cardinality({i \in Tasks : task[i].pc \in Running})

EmptyEntry == [prompt |-> <<>>, command_output |-> EmptyDict]

TypeOK ==
    /\ devices \in Seq(DeviceIds \cup Range(PoolIds))
    /\ commands \in Seq(CommandIds)
    /\ output_type \in {"Text", "Excel"}
    /\ runPc \in {"notstarted", "run", "executor", "submit", "futures",
                  "report", "final", "returned", "finished", "crashed"}
    /\ nsub \in 0..D
    /\ \A i \in Tasks :
         /\ task[i].pc \in {"unsubmitted", "queued"} \cup Running \cup Terminal
         /\ task[i].session \in {"none", "open", "closed"}
         /\ task[i].sent \in 0..C
         /\ task[i].stored \in 0..C
    /\ Range(output_data.keys) \subseteq Range(devices)
    /\ emitted \in Nat
    /\ emitCount \in [{"startup", "device", "final"} -> Nat]
    /\ logged \subseteq Range(devices)
    /\ run_button \in BOOLEAN
    /\ progress_bar \in 0..BarMax
    /\ uiPc \in {"idle", "started", "progress_connected"}
    /\ runs \in 0..MaxRuns

NoReport == [state |-> "none", files |-> EmptyDict, rows |-> <<>>,
             error |-> "none"]

\* ------------------------------------------------------------------ Init
InitBatch ==
    /\ output_type \in {"Text", "Excel"}
    /\ nsub = 0
    /\ futures = EmptyDict
    /\ task = [i \in 1..Len(devices) |-> NewTask]
    /\ output_data = EmptyDict
    /\ emitted = 0
    /\ emitCount = NoEmits
    /\ logged = {}
    /\ report = NoReport

NoSlots == [add_progress |-> FALSE, finished |-> FALSE]

\* Device and command lines are opaque: of the lists that differ only by
\* renaming the lines, the one whose first line is d1 (c1) is taken.
Lines(ids, first, n) == {s \in SeqsUpTo(ids, n) : s # <<>> => s[1] = first}

\* run_worker.start() has been called and RunEvent.run has read the form;
\* run_start_event has not connected the signals yet.
Init ==
    /\ devices \in Lines(DeviceIds, "d1", MaxDevices)
    /\ commands \in Lines(CommandIds, "c1", MaxCommands)
    /\ InitBatch
    /\ runPc = "run"
    /\ run_button = FALSE
    /\ progress_bar = 0
    /\ uiPc = "started"
    /\ connected = NoSlots
    /\ uiQueue = <<>>
    /\ runs = 1

\* --------------------------------------------------------- RunEvent.run
\* run, up to the call of thread_executor: self.output_data = {}.
RunStart ==
    /\ runPc = "run"
    /\ output_data' = EmptyDict
    /\ runPc' = "executor"
    /\ UNCHANGED <<batchIn, nsub, futures, task,
                   emitted, emitCount, logged, report,
                   uiVars, uiQueue>>

\* thread_executor: self.add_progress.emit(9), and the pool is created.
ExecutorStart ==
    /\ runPc = "executor"
    /\ Emit("startup", StartupIncrement)
    /\ runPc' = "submit"
    /\ UNCHANGED <<batchIn, nsub, futures, task,
                   output_data, logged, report,
                   uiVars>>

\* One turn of the dict comprehension: executor.submit(self.snapshot_task,
\* device) queues the task; the futures dict is keyed by the device.
Submit ==
    /\ runPc = "submit"
    /\ nsub < D
    /\ nsub' = nsub + 1
    /\ task' = [task EXCEPT ![nsub + 1].pc = "queued"]
    /\ futures' = DictSet(futures, devices[nsub + 1], nsub + 1)
    /\ UNCHANGED <<batchIn, runPc, output_data,
                   emitted, emitCount, logged, report,
                   uiVars, uiQueue>>

\* sleep(0.5); executor.shutdown(wait=True): returns once every worker
\* thread has ended, which is once every queued task has run.
\* (as executor.shutdown(wait=False) would be: it returns at once)
ShutdownNoWait == TRUE

ShutdownReady == \A i \in Tasks : task[i].pc \in Terminal

Shutdown ==
    /\ runPc = "submit"
    /\ nsub = D
    /\ ShutdownReady
    /\ runPc' = "futures"
    /\ UNCHANGED <<batchIn, nsub, futures, task,
                   output_data, emitted, emitCount, logged, report,
                   uiVars, uiQueue>>

\* future.exception() hands the task's exception back, it does not raise it.
\* (as future.result() would be: it raises the task's exception again)
FuturesReraise ==
    IF \E i \in Tasks : task[i].pc = "raised" THEN "crashed" ELSE "report"

FuturesNext == "report"

\* for device, future in futures.items(): log the exception, if any.
CollectFutures ==
    /\ runPc = "futures"
    /\ logged' = {d \in Range(futures.keys) : task[futures.val[d]].pc = "raised"}
    /\ runPc' = FuturesNext
    /\ UNCHANGED <<batchIn, nsub, futures, task,
                   output_data, emitted, emitCount, report,
                   uiVars, uiQueue>>

\* ------------------------------------------------------- snapshot_task
\* A pool worker takes the oldest queued task; the pool has at most
\* MaxWorkers worker threads, each running one task at a time.
Dequeue(i) ==
    /\ task[i].pc = "queued"
    /\ \A j \in 1..(i - 1) : task[j].pc # "queued"
    /\ NumRunning < MaxWorkers
    /\ task' = [task EXCEPT ![i].pc = "start"]
    /\ UNCHANGED <<batchIn, runPc, nsub, futures,
                   output_data, emitted, emitCount, logged, report,
                   uiVars, uiQueue>>

\* self.output_data[device] = {"prompt": "", "command_output": {}} and the
\* connect-attempt increment.
TaskInit(i) ==
    /\ task[i].pc = "start"
    /\ output_data' = DictSet(output_data, devices[i], EmptyEntry)
    /\ Emit("device", ConnectIncrement)
    /\ task' = [task EXCEPT ![i].pc = "connect"]
    /\ UNCHANGED <<batchIn, runPc, nsub, futures,
                   logged, report,
                   uiVars>>

\* command_progress = (available_progress * 0.7) / len(self.commands)
\* raises ZeroDivisionError when there is no command.
AfterAuth == IF C = 0 THEN "raised" ELSE "send"

\* GenericHandler(...) opened the session: the prompt is recorded in the
\* entry that output_data holds for the device, the authentication
\* increment is emitted, and command_progress is computed.
ConnectOk(i) ==
    /\ task[i].pc = "connect"
    /\ \E p \in Prompts :
         output_data' = [output_data EXCEPT
                           !.val[devices[i]].prompt = p]
    /\ Emit("device", AuthIncrement)
    /\ task' = [task EXCEPT ![i].session = "open", ![i].pc = AfterAuth]
    /\ UNCHANGED <<batchIn, runPc, nsub, futures,
                   logged, report,
                   uiVars>>

\* GenericHandler(...) raised: the task ends with the exception.
ConnectFail(i) ==
    /\ task[i].pc = "connect"
    /\ task' = [task EXCEPT ![i].pc = "raised"]
    /\ UNCHANGED <<batchIn, runPc, nsub, futures,
                   output_data, emitted, emitCount, logged, report,
                   uiVars, uiQueue>>

\* (as a loop that writes the next command to the session before it has read
\* and stored the output of the one before would be)
SendPipelined(i) ==
    /\ task[i].pc \in {"send", "store"}
    /\ task[i].sent < C
    /\ \E raw \in RawOutputs :
         task' = [task EXCEPT ![i].sent = @ + 1,
                              ![i].pending = Strip(raw),
                              ![i].pc = "store"]
    /\ UNCHANGED <<batchIn, runPc, nsub, futures,
                   output_data, emitted, emitCount, logged, report,
                   uiVars, uiQueue>>

\* handler.sendCommand(command).strip() returned.
SendOk(i) ==
    /\ task[i].pc = "send"
    /\ \E raw \in RawOutputs :
         task' = [task EXCEPT ![i].sent = @ + 1,
                              ![i].pending = Strip(raw),
                              ![i].pc = "store"]
    /\ UNCHANGED <<batchIn, runPc, nsub, futures,
                   output_data, emitted, emitCount, logged, report,
                   uiVars, uiQueue>>

\* handler.sendCommand(command) raised: the exception leaves the loop and
\* the task; handler.close() is not reached.
SendFail(i) ==
    /\ task[i].pc = "send"
    /\ task' = [task EXCEPT ![i].sent = @ + 1, ![i].pc = "raised"]
    /\ UNCHANGED <<batchIn, runPc, nsub, futures,
                   output_data, emitted, emitCount, logged, report,
                   uiVars, uiQueue>>

\* The loop's next position after a command is stored.
AfterStore(n) == IF n < C THEN "send" ELSE "close"

\* self.output_data[device]["command_output"][command] = result and the
\* per-command increment.
Store(i) ==
    /\ task[i].pc = "store"
    /\ LET dev == devices[i]
           cmd == commands[task[i].stored + 1]
       IN output_data' = [output_data EXCEPT
                            !.val[dev].command_output =
                                DictSet(@, cmd, task[i].pending)]
    /\ Emit("device", CommandIncrement)
    /\ task' = [task EXCEPT ![i].stored = @ + 1,
                            ![i].cmdEmits = @ + 1,
                            ![i].pending = <<>>,
                            ![i].pc = AfterStore(task[i].stored + 1)]
    /\ UNCHANGED <<batchIn, runPc, nsub, futures,
                   logged, report,
                   uiVars>>

\* handler.close(), after the loop.
Close(i) ==
    /\ task[i].pc = "close"
    /\ task' = [task EXCEPT ![i].session = "closed", ![i].pc = "done"]
    /\ UNCHANGED <<batchIn, runPc, nsub, futures,
                   output_data, emitted, emitCount, logged, report,
                   uiVars, uiQueue>>

TaskStep(i) ==
    \/ Dequeue(i)
    \/ TaskInit(i)
    \/ ConnectOk(i)
    \/ ConnectFail(i)
    \/ SendOk(i)
    \/ SendFail(i)
    \/ Store(i)
    \/ Close(i)

\* ------------------------------------------------------ generate_report
\* Text: one section per entry of command_output: prompt, command, output.
RECURSIVE TextBody(_, _, _)
TextBody(prompt, outs, n) ==
    IF n = 0 THEN <<>>
    ELSE Append(TextBody(prompt, outs, n - 1),
                <<prompt, outs.keys[n], outs.val[outs.keys[n]]>>)

\* Text: open(filepath, "w") per entry of output_data, in its order; the
\* file name is prompt[:-1] and the date, so DropLast(prompt) names it.
RECURSIVE TextFiles(_, _)
TextFiles(od, n) ==
    IF n = 0 THEN EmptyDict
    ELSE LET data == od.val[od.keys[n]]
         IN DictSet(TextFiles(od, n - 1), DropLast(data["prompt"]),
                    TextBody(data["prompt"], data["command_output"],
                             DictLen(data["command_output"])))

\* Excel: dump_data[idx] = {"Device": prompt[:-1]} updated with
\* command_output, idx counting the entries of output_data from 1.
ExcelRows(od) ==
    [idx \in 1..DictLen(od) |->
        [Device |-> DropLast(od.val[od.keys[idx]]["prompt"]),
         columns |-> od.val[od.keys[idx]]["command_output"]]]

Written ==
    IF output_type = "Text"
    THEN [state |-> "written",
          files |-> TextFiles(output_data, DictLen(output_data)),
          rows |-> <<>>, error |-> "none"]
    ELSE [state |-> "written", files |-> EmptyDict,
          rows |-> ExcelRows(output_data), error |-> "none"]

\* (as prompt[-1] would be: indexing the empty string raises IndexError)
IndexRaises(prompt) == prompt = <<>>

\* prompt[:-1] is a slice: it raises for no string, the empty one included.
SliceRaises(prompt) == FALSE

\* The entries of output_data on which a per-device loop of generate_report
\* raises: both loops read data["prompt"] and data["command_output"], which
\* every entry has, slice the prompt and walk command_output.
RaisingEntries ==
    {k \in Range(output_data.keys) :
        \/ DOMAIN output_data.val[k] # {"prompt", "command_output"}
        \/ SliceRaises(output_data.val[k]["prompt"])}

\* What generate_report can raise: writing the file or the workbook can fail
\* whatever the data; the data makes it raise on the entries above.
ReportErrors ==
    {"OSError"} \cup (IF RaisingEntries # {} THEN {"DataError"} ELSE {})

GenerateReport ==
    /\ runPc = "report"
    /\ RaisingEntries = {}
    /\ report' = Written
    /\ runPc' = "final"
    /\ UNCHANGED <<batchIn, nsub, futures, task,
                   output_data, emitted, emitCount, logged,
                   uiVars, uiQueue>>

\* (as run would be with generate_report inside a try/except that logs and
\* goes on to the final increment)
ReportFailSwallowed == "final"

\* run calls generate_report bare: what it raises ends run before the final
\* increment.
ReportFailNext == "crashed"

\* generate_report raised: the error leaves generate_report and run.
ReportFail ==
    /\ runPc = "report"
    /\ \E err \in ReportErrors :
         report' = [NoReport EXCEPT !.state = "failed", !.error = err]
    /\ runPc' = ReportFailNext
    /\ UNCHANGED <<batchIn, nsub, futures, task,
                   output_data, emitted, emitCount, logged,
                   uiVars, uiQueue>>

\* self.add_progress.emit(2); run returns.
RunFinal ==
    /\ runPc = "final"
    /\ Emit("final", FinalIncrement)
    /\ runPc' = "returned"
    /\ UNCHANGED <<batchIn, nsub, futures, task,
                   output_data, logged, report,
                   uiVars>>

\* run has returned: QThread emits finished.
ThreadFinished ==
    /\ runPc = "returned"
    /\ Signal("finished", [sig |-> "finished", value |-> 0])
    /\ runPc' = "finished"
    /\ UNCHANGED <<batchIn, nsub, futures, task, output_data, emitted, emitCount,
                   logged, report, uiVars>>

\* ----------------------------------------------------------------- Form
\* (as run_start_event would be without its setEnabled(False))
RunButtonLeftEnabled == TRUE

\* self.run_button.setEnabled(False), the first statement of run_start_event.
RunButtonOnStart == FALSE

\* The Run button is clicked, which an enabled button only can be.
\* run_start_event, up to run_worker.start(): the button is disabled, the
\* bar reset, and a new RunEvent, with no slot connected, starts to run.
RunStartEvent ==
    /\ uiPc = "idle"
    /\ run_button
    /\ runs < MaxRuns
    /\ run_button' = RunButtonOnStart
    /\ progress_bar' = 0
    /\ runs' = runs + 1
    /\ connected' = NoSlots
    /\ runPc' = "run"
    /\ nsub' = 0
    /\ futures' = EmptyDict
    /\ task' = [i \in 1..Len(devices) |-> NewTask]
    /\ emitted' = 0
    /\ emitCount' = NoEmits
    /\ logged' = {}
    /\ report' = NoReport
    /\ uiPc' = "started"
    /\ UNCHANGED <<batchIn, output_data, uiQueue>>

\* self.run_worker.add_progress.connect(self.update_progress)
ConnectProgress ==
    /\ uiPc = "started"
    /\ connected' = [connected EXCEPT !.add_progress = TRUE]
    /\ uiPc' = "progress_connected"
    /\ UNCHANGED <<batchIn, runPc, nsub, futures, task, output_data, emitted, emitCount,
                   logged, report, run_button, progress_bar, uiQueue, runs>>

\* self.run_worker.finished.connect(self.run_finish_event); the handler
\* returns to the event loop.
ConnectFinished ==
    /\ uiPc = "progress_connected"
    /\ connected' = [connected EXCEPT !.finished = TRUE]
    /\ uiPc' = "idle"
    /\ UNCHANGED <<batchIn, runPc, nsub, futures, task, output_data, emitted, emitCount,
                   logged, report, run_button, progress_bar, uiQueue, runs>>

\* int(value), of an increment counted in 1/Unit
IntOf(v) == v \div Unit

\* QProgressBar.setValue: a value outside the bar's range changes nothing.
SetValue(bar, v) == IF v >= 0 /\ v <= BarMax THEN v ELSE bar

\* update_progress, run by the event loop for a queued add_progress.
UpdateProgress ==
    /\ uiPc = "idle"
    /\ uiQueue # <<>>
    /\ Head(uiQueue).sig = "add_progress"
    /\ progress_bar' = SetValue(progress_bar,
                                progress_bar + IntOf(Head(uiQueue).value))
    /\ uiQueue' = Tail(uiQueue)
    /\ UNCHANGED <<batchIn, runPc, nsub, futures, task, output_data, emitted, emitCount,
                   logged, report, run_button, uiPc, connected, runs>>

\* run_finish_event, run by the event loop for a queued finished.
RunFinishEvent ==
    /\ uiPc = "idle"
    /\ uiQueue # <<>>
    /\ Head(uiQueue).sig = "finished"
    /\ run_button' = TRUE
    /\ progress_bar' = SetValue(progress_bar, BarMax)
    /\ uiQueue' = Tail(uiQueue)
    /\ UNCHANGED <<batchIn, runPc, nsub, futures, task, output_data, emitted, emitCount,
                   logged, report, uiPc, connected, runs>>

\* ------------------------------------------------------------------ Spec
Next ==
    \/ RunStart
    \/ ExecutorStart
    \/ Submit
    \/ Shutdown
    \/ CollectFutures
    \/ GenerateReport
    \/ ReportFail
    \/ RunFinal
    \/ ThreadFinished
    \/ \E i \in Tasks : TaskStep(i)

Spec == Init /\ [][Next]_vars

\* The form as Form.__init__ leaves it, with the lines typed in.
InitUI ==
    /\ devices \in Lines(DeviceIds, "d1", MaxUIDevices)
    /\ commands \in Lines(CommandIds, "c1", MaxUICommands)
    /\ InitBatch
    /\ runPc = "notstarted"
    /\ run_button = TRUE
    /\ progress_bar = 0
    /\ uiPc = "idle"
    /\ connected = NoSlots
    /\ uiQueue = <<>>
    /\ runs = 0

FormStep ==
    \/ RunStartEvent
    \/ ConnectProgress
    \/ ConnectFinished
    \/ UpdateProgress
    \/ RunFinishEvent

NextUI == Next \/ FormStep

SpecUI == InitUI /\ [][NextUI]_vars

\* A batch of PoolDevices distinct devices and one command.
InitPool ==
    /\ devices = SubSeq(PoolIds, 1, PoolDevices)
    /\ commands = <<"c1">>
    /\ InitBatch
    /\ output_type = "Excel"
    /\ runPc = "run"
    /\ run_button = FALSE
    /\ progress_bar = 0
    /\ uiPc = "started"
    /\ connected = NoSlots
    /\ uiQueue = <<>>
    /\ runs = 1

\* The runs in which a task takes its steps once the tasks submitted before
\* it have ended, and every device reports the prompt r1#: each of them is a
\* run of the program.
InTurn(i) == \A j \in 1..(i - 1) : task[j].pc \in Terminal

OnePrompt ==
    \A d \in Range(output_data.keys) :
        output_data.val[d].prompt \in {<<>>, <<"r", "1", "#">>}

NextPool ==
    \/ RunStart
    \/ ExecutorStart
    \/ Submit
    \/ Shutdown
    \/ CollectFutures
    \/ GenerateReport
    \/ ReportFail
    \/ RunFinal
    \/ ThreadFinished
    \/ \E i \in Tasks : InTurn(i) /\ TaskStep(i) /\ OnePrompt'

SpecPool == InitPool /\ [][NextPool]_vars

\* ---------------------------------------------------------------- claims
AfterExecutor == {"report", "final", "returned", "finished", "crashed"}

Distinct(s) == \A i, j \in 1..Len(s) : i # j => s[i] # s[j]

Entry(i) == output_data.val[devices[i]]

OpenFailed(i) == task[i].pc = "raised" /\ task[i].session = "none"

\* The task ended in sendCommand: its last command sent is the one that failed.
CommandFailed(i) ==
    task[i].pc = "raised" /\ task[i].session = "open" /\ task[i].sent > task[i].stored

OpenSessions == Cardinality({i \in Tasks : task[i].session = "open"})

\* C1: once thread_executor has returned, output_data iterates in the order
\* of the input device list, for every non-empty list of distinct devices.
C1_InputOrder ==
    (runPc \in AfterExecutor /\ D >= 1 /\ Distinct(devices))
        => output_data.keys = devices

\* C2: once thread_executor has returned, output_data holds one entry per
\* element of the input device list, duplicates included.
C2_OneEntryPerDevice ==
    runPc \in AfterExecutor => DictLen(output_data) = D

\* C3: when a snapshot_task whose session was opened has ended, the
\* session's close has been invoked (once), whether the commands succeeded,
\* there was no command, or a sendCommand raised.
C3_ClosedOnce ==
    \A i \in Tasks :
        (task[i].pc \in Terminal /\ task[i].session # "none")
            => task[i].session = "closed"

\* C4: the number of sessions opened and not yet closed never exceeds
\* min(8, D).
C4_OpenSessionsBounded == OpenSessions <= Min(MaxWorkers, D)

\* C5: over a batch of D >= 1 devices and C >= 1 commands in which every
\* session opens and every command succeeds, the increments emitted on
\* add_progress sum to 100.
C5_ProgressSums100 ==
    (/\ runPc \in {"returned", "finished"}
     /\ D >= 1
     /\ C >= 1
     /\ \A i \in Tasks : task[i].pc = "done")
        => emitted = 100 * Unit

\* C6: from the moment executor.shutdown has returned, so while and after
\* generate_report runs, every submitted snapshot_task has ended: none is
\* queued or running, and none is left to write to output_data.
C6_ReportAfterAllSettled ==
    runPc \in ({"futures"} \cup AfterExecutor)
        => /\ nsub = D
           /\ \A i \in Tasks : task[i].pc \in Terminal
           /\ \A i \in Tasks : ~ENABLED TaskStep(i)

C6_Witness ==
    /\ runPc = "report"
    /\ D = 2
    /\ \E i \in Tasks : task[i].pc = "raised"
    /\ \E i \in Tasks : task[i].pc = "done"

\* C7: a task that has raised blocks no other task (a task that is running
\* can always take its next step), thread_executor goes on to
\* generate_report whatever the tasks raised, and RunEvent.run ends with an
\* error only if generate_report raised it.
C7_FailuresContained ==
    /\ \A i \in Tasks : task[i].pc \in Running => ENABLED TaskStep(i)
    /\ \A i \in Tasks :
         (task[i].pc = "queued" /\ \A j \in 1..(i - 1) : task[j].pc # "queued")
            => ENABLED TaskStep(i)
    /\ runPc = "futures" => ENABLED (CollectFutures /\ runPc' = "report")
    /\ runPc = "crashed" => report.state = "failed"
    /\ report.state # "none" => runPc \in AfterExecutor

C7_Witness ==
    /\ runPc = "finished"
    /\ report.state = "written"
    /\ \E i, j \in Tasks :
         /\ OpenFailed(i)
         /\ task[j].pc = "done"
    /\ logged # {}

\* C8: at batch end, the entry of a device whose session open failed exists,
\* has an empty prompt and an empty command_output, and no command was sent.
C8_OpenFailEntryEmpty ==
    runPc \in AfterExecutor =>
        \A i \in Tasks :
            OpenFailed(i) =>
                /\ DictHas(output_data, devices[i])
                /\ Entry(i).prompt = <<>>
                /\ DictLen(Entry(i).command_output) = 0
                /\ task[i].sent = 0

\* C9: at batch end, the command_output of a device whose Nth command was
\* the first to fail holds exactly the entries of the N-1 commands before it,
\* and no command after the Nth was sent.
C9_PrefixBeforeFailure ==
    runPc \in AfterExecutor =>
        \A i \in Tasks :
            CommandFailed(i) =>
                /\ DictLen(Entry(i).command_output) = task[i].sent - 1
                /\ Entry(i).command_output.keys
                       = SubSeq(commands, 1, task[i].sent - 1)
                /\ task[i].stored = task[i].sent - 1

\* C10: a batch that has ended is notified: once the worker thread has
\* finished and the Form's thread has nothing left to do, run_finish_event
\* has run and the Run button is enabled again.
C10_FinishNotified ==
    (runPc = "finished" /\ uiPc = "idle" /\ uiQueue = <<>>) => run_button

NumOpenFailed == Cardinality({i \in Tasks : OpenFailed(i)})

\* The run has ended, at least one device failed to open its session and
\* every other device ran all its commands and closed.
SomeOpenFailedRestDone ==
    /\ runPc \in {"returned", "finished"}
    /\ NumOpenFailed >= 1
    /\ \A i \in Tasks : OpenFailed(i) \/ task[i].pc = "done"

\* C11 (as claimed): in a batch in which at least one device fails to open
\* and all the others fully succeed, the increments emitted by the end of the
\* run still reach 100.
C11_StillReaches100 ==
    SomeOpenFailedRestDone => emitted >= 100 * Unit

\* C11 (amended): in such a batch a device that fails to open emits its
\* connect-attempt increment only (9/D of its 90/D), so with k such devices
\* the increments emitted by the end of the run sum to 101 - 81*k/D.
C11_UnderSums ==
    SomeOpenFailedRestDone
        => emitted = 101 * Unit - 81 * Max(C, 1) * NumOpenFailed

C11_Witness ==
    /\ SomeOpenFailedRestDone
    /\ D = 2
    /\ NumOpenFailed = 1
    /\ emitted < 100 * Unit

\* The commands the task of device i completed, that is stored an output of.
Completed(i) == {commands[n] : n \in 1..task[i].stored}

\* C12: in tabular mode generate_report builds one row per device, keyed
\* 1..D in device order: row i has the trimmed prompt of device i as Device,
\* one column per command device i completed, holding its output, and no
\* column for a command it never reached.
C12_TabularRows ==
    (report.state = "written" /\ output_type = "Excel") =>
        /\ Len(report.rows) = D
        /\ \A i \in Tasks :
             /\ report.rows[i].Device = DropLast(Entry(i).prompt)
             /\ report.rows[i].columns = Entry(i).command_output
             /\ Range(report.rows[i].columns.keys) = Completed(i)
             /\ (OpenFailed(i) => report.rows[i].Device = <<>>)

\* What the Text branch writes for the entry of key k, and the file it names.
BodyOf(k) ==
    TextBody(output_data.val[k]["prompt"], output_data.val[k]["command_output"],
             DictLen(output_data.val[k]["command_output"]))

FileOf(k) == DropLast(output_data.val[k]["prompt"])

\* C13: in Text mode, after generate_report the written artifacts hold a
\* distinct artifact for every device of output_data, each with that
\* device's sections: none is overwritten by another device's.
C13_DistinctArtifacts ==
    (report.state = "written" /\ output_type = "Text") =>
        /\ DictLen(report.files) = DictLen(output_data)
        /\ \A k \in Range(output_data.keys) :
             /\ DictHas(report.files, FileOf(k))
             /\ report.files.val[FileOf(k)] = BodyOf(k)
        /\ \A k1, k2 \in Range(output_data.keys) :
             k1 # k2 => FileOf(k1) # FileOf(k2)

\* C14: generate_report raises nothing because of a failed device: whatever
\* entries with an empty prompt and an empty or partial command_output the
\* batch left, no entry makes a per-device loop raise, the report can be
\* written, the loop of either branch handles every entry, and an error of
\* generate_report is one of writing the output.
C14_ReportDegrades ==
    /\ runPc = "report" => (RaisingEntries = {} /\ ENABLED GenerateReport)
    /\ report.state = "failed" => report.error = "OSError"
    /\ (report.state = "written" /\ output_type = "Text") =>
           \A k \in Range(output_data.keys) : DictHas(report.files, FileOf(k))
    /\ (report.state = "written" /\ output_type # "Text") =>
           Len(report.rows) = DictLen(output_data)

\* A report written from a batch with a device that failed to open (empty
\* prompt, no output) and one that failed on its second command.
C14_Witness ==
    /\ report.state = "written"
    /\ output_type = "Text"
    /\ \E i, j \in Tasks :
         /\ devices[i] # devices[j]
         /\ OpenFailed(i)
         /\ Entry(i) = EmptyEntry
         /\ CommandFailed(j)
         /\ DictLen(Entry(j).command_output) = 1
         /\ C = 2

\* C15: the startup increment is emitted once, before any device is
\* submitted, connects or emits; the final increment is emitted at most once,
\* only when generate_report has returned and every task, with its
\* increments, has ended; when generate_report raises, no final increment is
\* emitted.
C15_StartupAndFinalOnce ==
    /\ emitCount.startup <= 1
    /\ (emitCount.device > 0 \/ \E i \in Tasks : task[i].pc # "unsubmitted")
           => emitCount.startup = 1
    /\ runPc \in {"report", "final", "returned", "finished", "crashed"}
           => emitCount.startup = 1
    /\ emitCount.final <= 1
    /\ emitCount.final = 1 =>
           /\ report.state = "written"
           /\ runPc \in {"returned", "finished"}
           /\ \A i \in Tasks : task[i].pc \in Terminal
    /\ runPc \in {"returned", "finished"} => emitCount.final = 1
    /\ report.state = "failed" => (emitCount.final = 0 /\ runPc = "crashed")

\* A batch whose devices emitted increments and that emitted both the
\* startup and the final increment.
C15_Witness ==
    /\ runPc = "returned"
    /\ emitCount.startup = 1
    /\ emitCount.final = 1
    /\ emitCount.device >= 4
    /\ D = 2

\* The task has written output_data: its first statement stores the entry
\* under its device.
Wrote(i) == task[i].pc \in {"connect", "send", "store", "close", "done", "raised"}

\* C16: no two snapshot_task workers write the same key of output_data: the
\* tasks that have written output_data wrote under pairwise different keys,
\* whatever the device list, a list naming a device twice included.
C16_NoSharedKey ==
    \A i, j \in Tasks :
        (i # j /\ Wrote(i) /\ Wrote(j)) => devices[i] # devices[j]

\* What one step of task i keeps of the order of snapshot_task's statements.
InOrder(i) ==
    /\ task'[i].sent > task[i].sent =>
           /\ task[i].session = "open"
           /\ task[i].sent = task[i].stored
           /\ task'[i].sent = task[i].sent + 1
    /\ (task[i].session = "none" /\ task'[i].session = "open") =>
           /\ task[i].sent = 0
           /\ output_data'.val[devices[i]]["prompt"] \in Prompts
    /\ task'[i].stored > task[i].stored =>
           /\ task'[i].stored = task[i].sent
           /\ task'[i].stored = task[i].stored + 1
           /\ DictHas(output_data'.val[devices[i]]["command_output"],
                      commands[task'[i].stored])
    /\ task'[i].cmdEmits > task[i].cmdEmits =>
           /\ task'[i].cmdEmits = task'[i].stored
           /\ emitted' = emitted + CommandIncrement

\* C17: within one task the commands are sent one at a time in the order of
\* the command list: the next command is sent only when every command sent
\* before has its output stored, the session is open and the prompt recorded
\* before the first command is sent, and a per-command increment is emitted
\* only with the store of that command's output.
C17_Sequential ==
    /\ [](\A i \in Tasks :
            /\ task[i].sent \in {task[i].stored, task[i].stored + 1}
            /\ task[i].pc = "send" => task[i].sent = task[i].stored
            /\ task[i].pc = "store" => task[i].sent = task[i].stored + 1
            /\ task[i].sent > 0 => task[i].session # "none"
            /\ task[i].cmdEmits = task[i].stored
            /\ task[i].sent <= C)
    /\ [][\A i \in Tasks : InOrder(i)]_vars

\* The second device has its first command stored and is about to send its
\* second, while the first device, its session open, has sent nothing yet.
C17_Witness ==
    /\ D = 2
    /\ C = 2
    /\ devices[1] # devices[2]
    /\ task[1].pc = "send"
    /\ task[1].sent = 0
    /\ task[2].pc = "send"
    /\ task[2].sent = 1
    /\ task[2].stored = 1

\* Some task submitted for device k has opened its session.
Opened(k) == \E i \in Tasks : devices[i] = k /\ task[i].session # "none"

\* C18: for every device of output_data, the keys of its command_output are
\* commands of the command list, are no more than the commands, are the
\* first commands of the list in its order, and there are some only if the
\* device's session was opened and its prompt recorded.
C18_OutputIsPrefix ==
    \A k \in Range(output_data.keys) :
        LET co == output_data.val[k]["command_output"]
        IN /\ Range(co.keys) \subseteq Range(commands)
           /\ DictLen(co) <= C
           /\ co.keys = SubSeq(commands, 1, DictLen(co))
           /\ DictLen(co) > 0 =>
                  /\ Opened(k)
                  /\ output_data.val[k]["prompt"] \in Prompts

\* The worker of the form's batch is running: created and started, and its
\* run has neither returned nor raised.
BatchRunning == runPc \notin {"notstarted", "finished", "crashed"}

\* C19: one batch at a time: while the Run button is enabled, which a click
\* that starts a batch needs, no worker is running and no signal of a worker
\* waits for the form; from run_start_event to run_finish_event the button
\* is disabled and no RunEvent can be created.
C19_OneBatchAtATime ==
    /\ run_button => (~BatchRunning /\ uiQueue = <<>> /\ uiPc = "idle")
    /\ (BatchRunning \/ uiQueue # <<>> \/ uiPc # "idle") =>
           ~ENABLED RunStartEvent

\* The second batch of the form is running, started after run_finish_event
\* enabled the button again, and the button is disabled.
C19_Witness ==
    /\ runs = 2
    /\ ~run_button
    /\ runPc = "submit"
    /\ nsub >= 1

====
